---------------------------- MODULE Spec2Model ----------------------------
(***************************************************************************)
(* The variable-length byte container `Bytes` of casper-types' bytesrepr   *)
(* (types/src/bytesrepr/bytes.rs): its ToBytes and FromBytes               *)
(* implementations, driven the way the module's unit tests drive them: a   *)
(* value is serialized, the buffer is optionally extended or cut, and the  *)
(* buffer is then decoded step by step, each step working on the remainder *)
(* the previous one returned.                                              *)
(*                                                                         *)
(* The helpers of the parent module bytesrepr (serialize_bytes,            *)
(* bytes_serialized_length, safe_split_at and the u32 codec) are modelled  *)
(* after sections 4.1-4.3 of the specification.                            *)
(***************************************************************************)
EXTENDS Integers, Sequences, FiniteSets

(***************************************************************************)
(* Bounds of the model.                                                    *)
(***************************************************************************)
\* longest payload of a generated Bytes value
MaxLen == 2
\* most values serialized into one buffer
MaxValues == 3
\* longest generated suffix appended after a serialized value
MaxSuffix == 2
\* longest buffer received from outside (not produced by the encoder)
MaxRaw == 6

(***************************************************************************)
(* Bytes and byte sequences.                                               *)
(***************************************************************************)
\* u8
Byte == 0..255

\* payload bytes of generated values: the two extremes of u8
PayloadBytes == {0, 255}

\* bytes of buffers received from outside and of generated suffixes: small
\* length digits and the maximum digit
WireBytes == {0, 1, 2, 255}

\* all sequences over S of length lo..hi
SeqsOf(S, lo, hi) == UNION {[1..n -> S] : n \in lo..hi}

\* `vec![1, 2, 3, 4, 5]`, the value every unit test serializes
TestData == <<1, 2, 3, 4, 5>>

\* `vec![6, 7, 8, 9, 10]`, the suffix of should_serialize_deserialize_bytes_and_keep_rem
TestRem == <<6, 7, 8, 9, 10>>

\* the Bytes values the model serializes
Values == SeqsOf(PayloadBytes, 0, MaxLen) \cup {TestData}

\* the suffixes the model appends
Suffixes == SeqsOf(WireBytes, 1, MaxSuffix) \cup {TestRem}

\* the buffers the model receives from outside
RawBuffers == SeqsOf(WireBytes, 0, MaxRaw)

\* s[from..], 0-based as in Rust
DropFirst(s, n) == SubSeq(s, n + 1, Len(s))

\* s[..n], 0-based as in Rust
TakeFirst(s, n) == SubSeq(s, 1, n)

(***************************************************************************)
(* Results.                                                                *)
(***************************************************************************)
\* Ok((value, remainder))
Ok(v, r) == [tag |-> "Ok", value |-> v, rem |-> r]

\* Err(error)
Err(e) == [tag |-> "Err", value |-> e, rem |-> <<>>]

\* a panic: the call does not return
Panic == [tag |-> "Panic", value |-> "panic", rem |-> <<>>]

\* no call made yet
NoResult == [tag |-> "None", value |-> "none", rem |-> <<>>]

EarlyEndOfStream == "EarlyEndOfStream"

\* the encode failure of specification 7: the length does not fit the prefix
LengthOverflow == "LengthOverflow"

(***************************************************************************)
(* 32-bit unsigned integers, kept as two 16-bit halves so that the whole   *)
(* range 0 .. 2^32 - 1 is represented exactly.                             *)
(***************************************************************************)
Half == 256 * 256

\* the number n as a u32/usize; n < 2^31 here
Wide(n) == [lo |-> n % Half, hi |-> n \div Half]

\* a > n for a wide number a and a buffer length n
WideGt(a, n) == a.hi > (n \div Half) \/ (a.hi = (n \div Half) /\ a.lo > (n % Half))

\* the wide number a as a plain integer; used only where a <= a buffer length
Narrow(a) == a.hi * Half + a.lo

\* `size as usize`: a widening cast, value-preserving
as_usize(size) == size

\* the width of an encoded u32
U32_SERIALIZED_LENGTH == 4

\* u32::from_le_bytes
u32_from_le_bytes(b) == [lo |-> b[1] + 256 * b[2], hi |-> b[3] + 256 * b[4]]

\* u32::to_le_bytes
u32_to_le_bytes(x) == <<x.lo % 256, x.lo \div 256, x.hi % 256, x.hi \div 256>>

(***************************************************************************)
(* bytesrepr helpers (specification 4.1, 4.2, 4.3).                        *)
(***************************************************************************)
\* safe_split_at(bytes, n): the prefix of n bytes and the rest, or
\* EarlyEndOfStream when n exceeds the length; never panics
safe_split_at(bytes, n) ==
    IF WideGt(n, Len(bytes))
    THEN Err(EarlyEndOfStream)
    ELSE Ok(TakeFirst(bytes, Narrow(n)), DropFirst(bytes, Narrow(n)))

\* <u32 as FromBytes>::from_bytes
u32_from_bytes(bytes) ==
    LET r == safe_split_at(bytes, Wide(U32_SERIALIZED_LENGTH))
    IN  IF r.tag # "Ok" THEN r ELSE Ok(u32_from_le_bytes(r.value), r.rem)

\* <u32 as FromBytes>::from_vec: the borrowed decode, the remainder copied
\* into a new vector
u32_from_vec(stream) ==
    LET r == u32_from_bytes(stream)
    IN  IF r.tag # "Ok" THEN r ELSE Ok(r.value, r.rem)

\* bytes_serialized_length
bytes_serialized_length(bytes) == U32_SERIALIZED_LENGTH + Len(bytes)

\* serialize_bytes: the length as a u32, little-endian, then the bytes;
\* fails when the length does not fit the prefix
serialize_bytes(bytes) ==
    IF Wide(Len(bytes)).hi >= Half
    THEN Err(LengthOverflow)
    ELSE Ok(u32_to_le_bytes(Wide(Len(bytes))) \o bytes, <<>>)

\* Vec::split_off(at): panics when at > len; the vector keeps [0, at) and
\* [at, len) is returned
split_off(vec, at) ==
    IF WideGt(at, Len(vec))
    THEN Panic
    ELSE Ok(TakeFirst(vec, Narrow(at)), DropFirst(vec, Narrow(at)))

\* <[u8]>::to_vec: a copy
to_vec(slice) == slice

(***************************************************************************)
(* impl ToBytes for Bytes.                                                 *)
(***************************************************************************)
\* a to_bytes that leaves the first payload byte out
to_bytes_skip_first(self) == serialize_bytes(DropFirst(self, 1))

\* a to_bytes that returns the payload without its length prefix
to_bytes_no_prefix(self) == Ok(self, <<>>)

\* Bytes::to_bytes
to_bytes(self) == serialize_bytes(self)

\* Bytes::into_bytes
into_bytes(self) == serialize_bytes(self)

\* a serialized_length that leaves the length prefix out
serialized_length_no_prefix(self) == Len(self)

\* Bytes::serialized_length
serialized_length(self) == bytes_serialized_length(self)

(***************************************************************************)
(* impl FromBytes for Bytes.                                               *)
(***************************************************************************)
\* a from_bytes that carves the payload out of the whole input instead of
\* the remainder that follows the length prefix
from_bytes_unstripped(bytes) ==
    LET r1 == u32_from_bytes(bytes)
    IN  IF r1.tag # "Ok" THEN r1
        ELSE LET size == r1.value
                 r2 == safe_split_at(bytes, as_usize(size))
             IN  IF r2.tag # "Ok" THEN r2
                 ELSE Ok(to_vec(r2.value), r2.rem)

\* a from_bytes that returns what follows the length prefix as the remainder
from_bytes_stale_remainder(bytes) ==
    LET r1 == u32_from_bytes(bytes)
    IN  IF r1.tag # "Ok" THEN r1
        ELSE LET size == r1.value
                 remainder == r1.rem
                 r2 == safe_split_at(remainder, as_usize(size))
             IN  IF r2.tag # "Ok" THEN r2
                 ELSE Ok(to_vec(r2.value), remainder)

\* a from_bytes that takes what is there when the payload is short
from_bytes_lenient(bytes) ==
    LET r1 == u32_from_bytes(bytes)
    IN  IF r1.tag # "Ok" THEN r1
        ELSE LET size == r1.value
                 remainder == r1.rem
                 r2 == safe_split_at(remainder, as_usize(size))
             IN  IF r2.tag # "Ok" THEN Ok(to_vec(remainder), <<>>)
                 ELSE Ok(to_vec(r2.value), r2.rem)

\* Bytes::from_bytes
from_bytes(bytes) ==
    LET r1 == u32_from_bytes(bytes)
    IN  IF r1.tag # "Ok" THEN r1
        ELSE LET size == r1.value
                 remainder == r1.rem
                 r2 == safe_split_at(remainder, as_usize(size))
             IN  IF r2.tag # "Ok" THEN r2
                 ELSE Ok(to_vec(r2.value), r2.rem)

\* a from_vec whose length check is `>=`
from_vec_strict(stream0) ==
    LET r1 == u32_from_vec(stream0)
    IN  IF r1.tag # "Ok" THEN r1
        ELSE LET size == r1.value
                 stream == r1.rem
             IN  IF WideGt(as_usize(size), Len(stream)) \/ as_usize(size) = Wide(Len(stream))
                 THEN Err(EarlyEndOfStream)
                 ELSE split_off(stream, as_usize(size))

\* a from_vec without the length check
from_vec_unchecked(stream0) ==
    LET r1 == u32_from_vec(stream0)
    IN  IF r1.tag # "Ok" THEN r1
        ELSE LET size == r1.value
                 stream == r1.rem
             IN  split_off(stream, as_usize(size))

\* a from_vec that returns the two halves in the wrong order
from_vec_swapped(stream0) ==
    LET r1 == u32_from_vec(stream0)
    IN  IF r1.tag # "Ok" THEN r1
        ELSE LET size == r1.value
                 stream == r1.rem
             IN  IF WideGt(as_usize(size), Len(stream))
                 THEN Err(EarlyEndOfStream)
                 ELSE LET sp == split_off(stream, as_usize(size))
                      IN  IF sp.tag # "Ok" THEN sp ELSE Ok(sp.rem, sp.value)

\* Bytes::from_vec
from_vec(stream0) ==
    LET r1 == u32_from_vec(stream0)
    IN  IF r1.tag # "Ok" THEN r1
        ELSE LET size == r1.value
                 stream == r1.rem
             IN  IF WideGt(as_usize(size), Len(stream))
                 THEN Err(EarlyEndOfStream)
                 ELSE LET sp == split_off(stream, as_usize(size))
                      IN  IF sp.tag # "Ok" THEN sp ELSE Ok(sp.value, sp.rem)

(***************************************************************************)
(* State.                                                                  *)
(***************************************************************************)
VARIABLES
    \* the values serialized so far, in order, each with what to_bytes and
    \* serialized_length returned for it
    written,
    \* the buffer: built by the encoder or received, then the remainder of
    \* the last successful decode
    serialized,
    \* the suffix appended after the serialized value
    expected_rem,
    \* where the buffer comes from: "encoder", "truncated", "raw"
    origin,
    \* "build", "decode" (a decode step succeeded), "failed" (a step failed)
    phase,
    \* the values decoded so far, in order
    deserialized,
    \* the last decode step: entry point, input and result
    res

vars == <<written, serialized, expected_rem, origin, phase, deserialized, res>>

\* the values serialized so far
data == [i \in DOMAIN written |-> written[i].value]

Init ==
    /\ written = <<>>
    /\ serialized = <<>>
    /\ expected_rem = <<>>
    /\ origin = "encoder"
    /\ phase = "build"
    /\ deserialized = <<>>
    /\ res = [op |-> "none", input |-> <<>>, out |-> NoResult]

\* `data.to_bytes()` appended to the buffer, for some value `data`
ToBytes ==
    /\ phase = "build"
    /\ origin = "encoder"
    /\ expected_rem = <<>>
    /\ Len(written) < MaxValues
    /\ \E v \in Values :
           LET enc == to_bytes(v)
           IN  /\ enc.tag = "Ok"
               /\ written' = Append(written,
                      [value |-> v, bytes |-> enc.value, length |-> serialized_length(v)])
               /\ serialized' = serialized \o enc.value
    /\ UNCHANGED <<expected_rem, origin, phase, deserialized, res>>

\* `serialized.extend(&expected_rem)`, for some suffix
Extend ==
    /\ phase = "build"
    /\ origin = "encoder"
    /\ Len(written) = 1
    /\ expected_rem = <<>>
    /\ \E s \in Suffixes :
           /\ serialized' = serialized \o s
           /\ expected_rem' = s
    /\ UNCHANGED <<written, origin, phase, deserialized, res>>

\* `serialized[..k]`, for some k short of the whole encoding
Truncate ==
    /\ phase = "build"
    /\ origin = "encoder"
    /\ Len(written) = 1
    /\ expected_rem = <<>>
    /\ \E k \in 0..(Len(serialized) - 1) :
           serialized' = TakeFirst(serialized, k)
    /\ origin' = "truncated"
    /\ UNCHANGED <<written, expected_rem, phase, deserialized, res>>

\* a buffer from the network or from storage
Receive ==
    /\ phase = "build"
    /\ origin = "encoder"
    /\ written = <<>>
    /\ \E b \in RawBuffers : serialized' = b
    /\ origin' = "raw"
    /\ UNCHANGED <<written, expected_rem, phase, deserialized, res>>

\* one decode step: on success the caller goes on with the remainder
Step(op, out) ==
    /\ res' = [op |-> op, input |-> serialized, out |-> out]
    /\ IF out.tag = "Ok"
       THEN /\ deserialized' = Append(deserialized, out.value)
            /\ serialized' = out.rem
            /\ phase' = "decode"
       ELSE /\ phase' = "failed"
            /\ UNCHANGED <<deserialized, serialized>>
    /\ UNCHANGED <<written, expected_rem, origin>>

\* `Bytes::from_bytes(&serialized)`
FromBytes ==
    /\ phase \in {"build", "decode"}
    /\ Step("from_bytes", from_bytes(serialized))

\* `Bytes::from_vec(serialized)`
FromVec ==
    /\ phase \in {"build", "decode"}
    /\ Step("from_vec", from_vec(serialized))

Next ==
    \/ ToBytes
    \/ Extend
    \/ Truncate
    \/ Receive
    \/ FromBytes
    \/ FromVec

Spec == Init /\ [][Next]_vars

(***************************************************************************)
(* Notions the properties are stated in.                                   *)
(***************************************************************************)
\* the number of decode steps made
steps == Len(deserialized) + (IF phase = "failed" THEN 1 ELSE 0)

\* the buffer is what the encoder produced, nothing appended or cut
Pristine == origin = "encoder" /\ expected_rem = <<>>

\* the i-th base-256 digit of n, the least significant being the first
Digit(n, i) == (n \div (256 ^ (i - 1))) % 256

\* the 4-byte little-endian encoding of n
LittleEndian4(n) == <<Digit(n, 1), Digit(n, 2), Digit(n, 3), Digit(n, 4)>>

\* the little-endian number in b[1..4] is greater than n
PrefixExceeds(b, n) ==
    \E i \in 1..4 : /\ b[i] > Digit(n, i)
                    /\ \A j \in (i + 1)..4 : b[j] = Digit(n, j)

\* the first decode step was made, through from_bytes
FirstFromBytes == steps = 1 /\ res.op = "from_bytes"

(***************************************************************************)
(* C1. Round-trip: decoding v.to_bytes() with from_bytes succeeds and      *)
(* returns v and an empty remainder.                                       *)
(***************************************************************************)
C1_RoundTrip ==
    (FirstFromBytes /\ Pristine /\ Len(written) = 1 /\ res.input = written[1].bytes)
        => res.out = Ok(written[1].value, <<>>)

C1_Witness ==
    /\ FirstFromBytes /\ Pristine /\ Len(written) = 1
    /\ written[1].value = TestData
    /\ res.out = Ok(TestData, <<>>)

(***************************************************************************)
(* C2. Remainder preservation: decoding v.to_bytes() ++ s with from_bytes  *)
(* succeeds and returns v and s, for every suffix s, the empty one         *)
(* included.                                                               *)
(***************************************************************************)
C2_RemainderPreserved ==
    (/\ FirstFromBytes /\ origin = "encoder" /\ Len(written) = 1
     /\ res.input = written[1].bytes \o expected_rem)
        => /\ res.out.tag = "Ok"
           /\ res.out.value = written[1].value
           /\ res.out.rem = expected_rem
           /\ serialized = expected_rem

C2_Witness ==
    /\ FirstFromBytes /\ origin = "encoder" /\ Len(written) = 1
    /\ written[1].value = TestData
    /\ expected_rem = TestRem
    /\ res.out = Ok(TestData, TestRem)

(***************************************************************************)
(* C3. Truncation safety: from_bytes on the first k bytes of v.to_bytes(), *)
(* k short of the whole, fails with EarlyEndOfStream, wherever the cut     *)
(* falls.                                                                  *)
(***************************************************************************)
C3_TruncationFails ==
    (/\ FirstFromBytes /\ origin = "truncated"
     /\ \E k \in 0..(Len(written[1].bytes) - 1) :
            res.input = TakeFirst(written[1].bytes, k))
        => res.out = Err(EarlyEndOfStream)

\* the cut falls inside the payload
C3_Witness ==
    /\ FirstFromBytes /\ origin = "truncated"
    /\ written[1].value = TestData
    /\ Len(res.input) = Len(written[1].bytes) - 1
    /\ res.out = Err(EarlyEndOfStream)

(***************************************************************************)
(* C4. from_vec and from_bytes have the same outcome on every input: the   *)
(* same error, or equal values and equal remainders.                       *)
(***************************************************************************)
C4_BorrowedOwnedAgree ==
    /\ res.op = "from_vec" => res.out = from_bytes(res.input)
    /\ res.op = "from_bytes" => res.out = from_vec(res.input)

\* from_vec succeeded on a received buffer and left a remainder
C4_Witness ==
    /\ origin = "raw" /\ res.op = "from_vec"
    /\ res.out.tag = "Ok" /\ res.out.value # <<>> /\ res.out.rem # <<>>
    /\ res.out = from_bytes(res.input)

(***************************************************************************)
(* C5. Length accuracy: the length of v.to_bytes() is                      *)
(* v.serialized_length(), which is 4 + len(v); 4 for the empty container.  *)
(***************************************************************************)
C5_LengthAccurate ==
    \A i \in DOMAIN written :
        /\ Len(written[i].bytes) = written[i].length
        /\ written[i].length = 4 + Len(written[i].value)

C5_Witness ==
    \E i \in DOMAIN written :
        /\ written[i].value = <<>>
        /\ Len(written[i].bytes) = 4
        /\ written[i].length = 4

(***************************************************************************)
(* C6. Canonicality: two values are equal if and only if their encodings   *)
(* are byte for byte the same.                                             *)
(***************************************************************************)
C6_Canonical ==
    \A i, j \in DOMAIN written :
        (written[i].value = written[j].value) <=> (written[i].bytes = written[j].bytes)

\* two different values of the same length were serialized
C6_Witness ==
    /\ Len(written) = 2
    /\ written[1].value # written[2].value
    /\ Len(written[1].value) = Len(written[2].value)
    /\ written[1].bytes # written[2].bytes

(***************************************************************************)
(* C7. Byte-level format: v.to_bytes() is the 4-byte little-endian length  *)
(* of the payload followed by the payload, unchanged and in order, and     *)
(* nothing else; [1,2,3,4,5] encodes to [5,0,0,0,1,2,3,4,5].               *)
(***************************************************************************)
C7_Format ==
    /\ \A i \in DOMAIN written :
           written[i].bytes = LittleEndian4(Len(written[i].value)) \o written[i].value
    /\ \A i \in DOMAIN written :
           written[i].value = TestData
               => written[i].bytes = <<5, 0, 0, 0, 1, 2, 3, 4, 5>>

C7_Witness ==
    /\ Len(written) = 1
    /\ written[1].value = TestData
    /\ serialized = <<5, 0, 0, 0, 1, 2, 3, 4, 5>>

(***************************************************************************)
(* C8. Exact consumption: whenever from_bytes or from_vec succeeds on a    *)
(* buffer b with (v, rem), b is v.to_bytes() followed by rem, and rem is   *)
(* shorter than b by v.serialized_length().                                *)
(***************************************************************************)
C8_ExactConsumption ==
    res.out.tag = "Ok"
        => /\ Len(res.out.rem) = Len(res.input) - serialized_length(res.out.value)
           /\ to_bytes(res.out.value).tag = "Ok"
           /\ res.input = to_bytes(res.out.value).value \o res.out.rem

\* a received buffer, decoded by from_vec with bytes left over
C8_Witness ==
    /\ origin = "raw" /\ res.op = "from_vec"
    /\ res.out.tag = "Ok"
    /\ Len(res.out.value) = 1
    /\ Len(res.out.rem) = Len(res.input) - 5
    /\ res.out.rem # <<>>

(***************************************************************************)
(* C9. Typed failure: on every buffer b, from_bytes and from_vec return Ok *)
(* or Err(EarlyEndOfStream) and never panic; they fail exactly when b has  *)
(* fewer than 4 bytes or its little-endian length prefix is greater than   *)
(* len(b) - 4.                                                             *)
(***************************************************************************)
C9_TypedFailure ==
    res.op \in {"from_bytes", "from_vec"}
        => /\ res.out.tag \in {"Ok", "Err"}
           /\ res.out.tag = "Err" => res.out = Err(EarlyEndOfStream)
           /\ res.out.tag = "Err"
                  <=> \/ Len(res.input) < 4
                      \/ PrefixExceeds(res.input, Len(res.input) - 4)

\* the length prefix is 0xFFFFFFFF
C9_Witness ==
    /\ origin = "raw" /\ res.op = "from_vec"
    /\ Len(res.input) > 4
    /\ TakeFirst(res.input, 4) = <<255, 255, 255, 255>>
    /\ res.out = Err(EarlyEndOfStream)

(***************************************************************************)
(* C10. Sequential decoding: on the concatenation of the encodings of      *)
(* v1..vn, the i-th decode step (from_bytes or from_vec, on the remainder  *)
(* of the step before) succeeds and yields vi, the remainder after the     *)
(* n-th step is empty, and one more step fails with EarlyEndOfStream.      *)
(***************************************************************************)
C10_Sequential ==
    Pristine
        => /\ steps <= Len(written)
               => /\ phase # "failed"
                  /\ deserialized = TakeFirst(data, steps)
           /\ (steps >= 1 /\ steps <= Len(written)) => res.out.tag = "Ok"
           /\ (steps = Len(written) /\ phase # "build") => serialized = <<>>
           /\ steps > Len(written)
               => /\ steps = Len(written) + 1
                  /\ deserialized = data
                  /\ res.input = <<>>
                  /\ res.out = Err(EarlyEndOfStream)

\* three values decoded in order, then the step on the empty remainder failed
C10_Witness ==
    /\ Pristine /\ Len(written) = 3
    /\ written[1].value # written[2].value
    /\ written[2].value # written[3].value
    /\ steps = 4
    /\ deserialized = data
    /\ res.out = Err(EarlyEndOfStream)

===========================================================================
